---- MODULE Spec2Model ----
(***************************************************************************)
(* Fan-out / fan-in HTTP GET dispatch with Result values (src/main.go).    *)
(*                                                                         *)
(* One dispatch call is modelled: AsyncChainOfHttpGetCalls or              *)
(* SyncChainOfHttpGetCalls over a batch of urls, one goroutine per url     *)
(* running AsyncHttpGetCall, a buffered channel of capacity len(urls), and *)
(* the caller's collection loop.  The network is the environment: for each *)
(* url it decides whether http.Get succeeds, fails, or the body read       *)
(* fails.                                                                  *)
(*                                                                         *)
(* Every step of the code is an operator from a state record to the set of *)
(* its successor records (empty when the step is not enabled or blocks);   *)
(* the actions apply those operators to the variables.                     *)
(***************************************************************************)
EXTENDS Naturals, Integers, Sequences, FiniteSets, TLC

\* Largest batch (len(urls)) that is explored.
MaxUrls == 2

\* Longest slice handed to UnpackResults on its own.
MaxLen == 3

VARIABLES
    variant,    \* which dispatch function was called: "Async" or "Sync"
    fetch,      \* fetch[t]: what the network does for urls[t]
    launched,   \* number of iterations of the launch loop already run
    pc,         \* pc[t]: position of the goroutine of urls[t]
    resp,       \* resp[t]: "unset", "nil" (http.Get failed) or "resp"
    deferred,   \* deferred[t]: defer resp.Body.Close() has been registered
    closes,     \* closes[t]: number of times resp.Body.Close() has run
    sent,       \* sent[t]: tags of the messages goroutine t has sent on ch
    ch,         \* buffer of the channel ch, in FIFO order
    sendq,      \* goroutines parked in a send on the full channel, FIFO
    closed,     \* close(ch) has run
    results,    \* the slice results of the dispatch function
    i,          \* index of the collection loop
    wg,         \* counter of the sync.WaitGroup
    callerPc,   \* position of the goroutine that called the dispatch
    crashed,    \* the process was terminated by an unrecovered panic
    unpackPc,               \* position of the call of UnpackResults
    unpackArg,              \* its argument
    bodyRequestResults,     \* its first result
    bodyRequestErrors,      \* its second result
    accPc,      \* position of a program chaining AccOperations
    accFs,      \* the functions it chains, in order
    accOps,     \* the AccOperations it has built so far, the last one current
    accCalled,  \* accCalled[k]: the k-th call of Chain invoked its function
    accRet,     \* what Return() returned
    ioPc,       \* position of a program building and running an IO
    ioProg,     \* the program: receiver, chained functions, standard input
    ioTerm,     \* the IO value it has built
    ioIn,       \* lines of standard input not yet read
    ioLog,      \* effects executed and functions applied so far, in order
    ioVal,      \* what the last call of Run() returned
    ioRuns      \* number of calls of Run() made

dispatchVars == <<variant, fetch, launched, pc, resp, deferred, closes, sent,
                  ch, sendq, closed, results, i, wg, callerPc, crashed>>
unpackVars == <<unpackPc, unpackArg, bodyRequestResults, bodyRequestErrors>>
accVars == <<accPc, accFs, accOps, accCalled, accRet>>
ioVars == <<ioPc, ioProg, ioTerm, ioIn, ioLog, ioVal, ioRuns>>
vars == <<variant, fetch, launched, pc, resp, deferred, closes, sent,
          ch, sendq, closed, results, i, wg, callerPc, crashed,
          unpackPc, unpackArg, bodyRequestResults, bodyRequestErrors,
          accPc, accFs, accOps, accCalled, accRet,
          ioPc, ioProg, ioTerm, ioIn, ioLog, ioVal, ioRuns>>

(***************************************************************************)
(* Values.  A value is a record: k is its Go type ("bytes", "string",      *)
(* "error" or "nil"), c its content and of the url it came from (0: none). *)
(***************************************************************************)
Val(k, c, of) == [k |-> k, c |-> c, of |-> of]

NilValue == Val("nil", "", 0)

EmptyString == Val("string", "", 0)

\* err of http.Get(urls[t]) when the transport fails.
TransportErr(t) == Val("error", "transport", t)

\* err of io.ReadAll(resp.Body) when the read of the body of urls[t] fails.
ReadErr(t) == Val("error", "read", t)

\* body returned by io.ReadAll: the whole body, or what was read before the
\* read error.
BodyBytes(kind, t) ==
    IF kind = "readErr" THEN Val("bytes", "partial", t)
                        ELSE Val("bytes", "body", t)

\* string(body)
String(b) == Val("string", b.c, b.of)

\* The zero Result (a slot of results that was never assigned).
NilResult == [tag |-> "nil", Value |-> NilValue]

Ok(v) == [tag |-> "Ok", Value |-> v]

Error(e) == [tag |-> "Error", Value |-> e]

\* What the network may do for one url.
FetchKinds == {"ok", "transportErr", "readErr"}

Variants == {"Async", "Sync"}

N(s) == Len(s.fetch)

Tasks(s) == 1..Len(s.fetch)

\* The state of the dispatch as one record.
State ==
    [variant |-> variant, fetch |-> fetch, launched |-> launched, pc |-> pc,
     resp |-> resp, deferred |-> deferred, closes |-> closes, sent |-> sent,
     ch |-> ch, sendq |-> sendq, closed |-> closed, results |-> results,
     i |-> i, wg |-> wg, callerPc |-> callerPc, crashed |-> crashed]

\* The variables take the values of the record s.
Becomes(s) ==
    /\ variant' = s.variant
    /\ fetch' = s.fetch
    /\ launched' = s.launched
    /\ pc' = s.pc
    /\ resp' = s.resp
    /\ deferred' = s.deferred
    /\ closes' = s.closes
    /\ sent' = s.sent
    /\ ch' = s.ch
    /\ sendq' = s.sendq
    /\ closed' = s.closed
    /\ results' = s.results
    /\ i' = s.i
    /\ wg' = s.wg
    /\ callerPc' = s.callerPc
    /\ crashed' = s.crashed

\* The state on entry of the dispatch function called with len(urls) =
\* Len(f): results and ch are made, no goroutine is launched.
InitState(v, f) ==
    [variant |-> v, fetch |-> f, launched |-> 0,
     pc |-> [t \in 1..Len(f) |-> "idle"],
     resp |-> [t \in 1..Len(f) |-> "unset"],
     deferred |-> [t \in 1..Len(f) |-> FALSE],
     closes |-> [t \in 1..Len(f) |-> 0],
     sent |-> [t \in 1..Len(f) |-> <<>>],
     ch |-> <<>>, sendq |-> <<>>, closed |-> FALSE,
     results |-> [j \in 1..Len(f) |-> NilResult],
     i |-> 0, wg |-> 0, callerPc |-> "launch", crashed |-> FALSE]

\* All batches of at most n urls, as the network's behaviour per url.
Batches(n) == UNION {[1..k -> FetchKinds] : k \in 0..n}

(***************************************************************************)
(* The channel.                                                            *)
(***************************************************************************)

\* The message goroutine t sends at its current send statement.
MsgAt(s, t) ==
    CASE s.pc[t] = "sendGetErr" -> Error(TransportErr(t))
      [] s.pc[t] = "sendReadErr" -> Error(ReadErr(t))
      [] OTHER -> Ok(String(BodyBytes(s.fetch[t], t)))

\* Where goroutine t continues after its current send statement.
AfterSend(s, t) ==
    CASE s.pc[t] = "sendGetErr" -> "defer"
      [] s.pc[t] = "sendReadErr" -> "sendOk"
      [] OTHER -> "ret"

\* Goroutine t is parked in the channel's queue of senders.
Parked(s, t) == \E k \in 1..Len(s.sendq) : s.sendq[k] = t

\* ch <- msg by goroutine t.  On a closed channel the send panics; with
\* room in the buffer it completes; on a full buffer the goroutine parks
\* in the channel's queue of senders until a receive completes its send.
ChanSend(s, t) ==
    IF Parked(s, t)
    THEN {}
    ELSE IF s.closed
    THEN {[s EXCEPT !.pc[t] = "panic"]}
    ELSE IF Len(s.ch) < N(s)
    THEN {[s EXCEPT !.ch = Append(s.ch, MsgAt(s, t)),
                    !.sent[t] = Append(s.sent[t], MsgAt(s, t).tag),
                    !.pc[t] = AfterSend(s, t)]}
    ELSE {[s EXCEPT !.sendq = Append(s.sendq, t)]}

\* <-ch by the caller, stored in results[i].  With a message buffered the
\* receive takes the oldest one and, when a sender is parked, completes
\* the send of the first parked sender into the freed slot.  With the
\* buffer empty the caller blocks.
ChanRecv(s) ==
    IF s.ch = <<>>
    THEN {}
    ELSE LET got == [s EXCEPT !.results[s.i + 1] = Head(s.ch),
                              !.ch = Tail(s.ch),
                              !.i = s.i + 1]
         IN  IF s.sendq = <<>>
             THEN {got}
             ELSE LET t == Head(s.sendq)
                  IN  {[got EXCEPT !.ch = Append(got.ch, MsgAt(s, t)),
                                   !.sent[t] = Append(s.sent[t], MsgAt(s, t).tag),
                                   !.pc[t] = AfterSend(s, t),
                                   !.sendq = Tail(s.sendq)]}

\* close(ch): the channel is closed and every parked sender panics.
ChanClose(s) ==
    [s EXCEPT !.closed = TRUE,
              !.sendq = <<>>,
              !.pc = [t \in Tasks(s) |->
                        IF Parked(s, t) THEN "panic" ELSE s.pc[t]]]

(***************************************************************************)
(* AsyncHttpGetCall, run by the goroutine of urls[t].                      *)
(***************************************************************************)

\* resp, err := http.Get(url); if err != nil
HttpGet(s, t) ==
    IF s.crashed \/ s.pc[t] # "get"
    THEN {}
    ELSE IF s.fetch[t] = "transportErr"
    THEN {[s EXCEPT !.resp[t] = "nil", !.pc[t] = "sendGetErr"]}
    ELSE {[s EXCEPT !.resp[t] = "resp", !.pc[t] = "defer"]}

\* ch <- Error[error]{Value: err} after the failed http.Get.  There is no
\* return after it: the goroutine goes on to the defer statement.
SendGetError(s, t) ==
    IF s.crashed \/ s.pc[t] # "sendGetErr" THEN {} ELSE ChanSend(s, t)

\* defer resp.Body.Close(): evaluating resp.Body on a nil resp panics
\* (nil pointer dereference); otherwise the close is registered.
DeferBodyClose(s, t) ==
    IF s.crashed \/ s.pc[t] # "defer"
    THEN {}
    ELSE IF s.resp[t] = "nil"
    THEN {[s EXCEPT !.pc[t] = "panic"]}
    ELSE {[s EXCEPT !.deferred[t] = TRUE, !.pc[t] = "read"]}

\* body, err := io.ReadAll(resp.Body); if err != nil
ReadAll(s, t) ==
    IF s.crashed \/ s.pc[t] # "read"
    THEN {}
    ELSE IF s.fetch[t] = "readErr"
    THEN {[s EXCEPT !.pc[t] = "sendReadErr"]}
    ELSE {[s EXCEPT !.pc[t] = "sendOk"]}

\* ch <- Error[error]{Value: err} after the failed read.  There is no
\* return after it: the goroutine goes on to send the Ok.
SendReadError(s, t) ==
    IF s.crashed \/ s.pc[t] # "sendReadErr" THEN {} ELSE ChanSend(s, t)

\* ch <- Ok[RequestBodyAsString]{Value: string(body)}
SendOk(s, t) ==
    IF s.crashed \/ s.pc[t] # "sendOk" THEN {} ELSE ChanSend(s, t)

\* Where the goroutine goes when AsyncHttpGetCall is left, normally or by
\* a panic: SyncChainOfHttpGetCalls wraps the call in a function literal
\* with a deferred wg.Done(), AsyncChainOfHttpGetCalls runs it bare.
AfterCall(s, panicking) ==
    IF s.variant = "Sync"
    THEN (IF panicking THEN "panicWgDone" ELSE "wgDone")
    ELSE (IF panicking THEN "fatal" ELSE "done")

\* The deferred calls of AsyncHttpGetCall: resp.Body.Close() when it was
\* registered.
RunDeferred(s, t) ==
    IF s.deferred[t]
    THEN [s EXCEPT !.closes[t] = s.closes[t] + 1, !.deferred[t] = FALSE]
    ELSE s

\* AsyncHttpGetCall returns: its deferred calls run.
CallReturn(s, t) ==
    IF s.crashed \/ s.pc[t] # "ret"
    THEN {}
    ELSE {[RunDeferred(s, t) EXCEPT !.pc[t] = AfterCall(s, FALSE)]}

\* AsyncHttpGetCall panics: its deferred calls run and the panic goes up
\* to the function that called it.
CallPanic(s, t) ==
    IF s.crashed \/ s.pc[t] # "panic"
    THEN {}
    ELSE {[RunDeferred(s, t) EXCEPT !.pc[t] = AfterCall(s, TRUE)]}

\* defer wg.Done() of the function literal of SyncChainOfHttpGetCalls, run
\* when the literal returns or while it panics.
WgDone(s, t) ==
    IF s.crashed \/ s.pc[t] \notin {"wgDone", "panicWgDone"}
    THEN {}
    ELSE {[s EXCEPT !.wg = s.wg - 1,
                    !.pc[t] = IF s.pc[t] = "wgDone" THEN "done" ELSE "fatal"]}

\* A panic that no goroutine recovers terminates the process, with all
\* its goroutines.
Crash(s) ==
    IF ~s.crashed /\ \E t \in Tasks(s) : s.pc[t] = "fatal"
    THEN {[s EXCEPT !.crashed = TRUE]}
    ELSE {}

(***************************************************************************)
(* AsyncChainOfHttpGetCalls, run by the caller.                            *)
(***************************************************************************)

\* for _, url := range urls { go AsyncHttpGetCall(params) }
AsyncLaunch(s) ==
    IF s.crashed \/ s.variant # "Async" \/ s.callerPc # "launch"
    THEN {}
    ELSE IF s.launched < N(s)
    THEN {[s EXCEPT !.pc[s.launched + 1] = "get",
                    !.launched = s.launched + 1]}
    ELSE {[s EXCEPT !.callerPc = "recv"]}

\* AsyncReceive as a loop that tests its bound after the receive: the
\* first receive is made whatever len(urls).
AsyncReceiveTestsAfter(s) ==
    IF s.crashed \/ s.variant # "Async" \/ s.callerPc # "recv"
    THEN {}
    ELSE IF s.i = 0 \/ s.i < N(s)
    THEN ChanRecv(s)
    ELSE {[s EXCEPT !.callerPc = "close"]}

\* for i := 0; i < len(urls); i++ { results[i] = <-ch }
AsyncReceive(s) ==
    IF s.crashed \/ s.variant # "Async" \/ s.callerPc # "recv"
    THEN {}
    ELSE IF s.i < N(s)
    THEN ChanRecv(s)
    ELSE {[s EXCEPT !.callerPc = "close"]}

\* close(ch)
AsyncClose(s) ==
    IF s.crashed \/ s.variant # "Async" \/ s.callerPc # "close"
    THEN {}
    ELSE {[ChanClose(s) EXCEPT !.callerPc = "return"]}

\* return results
AsyncReturn(s) ==
    IF s.crashed \/ s.variant # "Async" \/ s.callerPc # "return"
    THEN {}
    ELSE {[s EXCEPT !.callerPc = "returned"]}

(***************************************************************************)
(* SyncChainOfHttpGetCalls, run by the caller.                             *)
(***************************************************************************)

\* for _, url := range urls { wg.Add(1); go func(url string) {...}(url) }
SyncLaunch(s) ==
    IF s.crashed \/ s.variant # "Sync" \/ s.callerPc # "launch"
    THEN {}
    ELSE IF s.launched < N(s)
    THEN {[s EXCEPT !.wg = s.wg + 1,
                    !.pc[s.launched + 1] = "get",
                    !.launched = s.launched + 1]}
    ELSE {[s EXCEPT !.callerPc = "wait"]}

\* SyncWait without the wait: the caller goes on to the collection loop
\* whatever the counter.
SyncWaitSkips(s) ==
    IF s.crashed \/ s.variant # "Sync" \/ s.callerPc # "wait"
    THEN {}
    ELSE {[s EXCEPT !.callerPc = "recv"]}

\* wg.Wait(): blocks until the counter is zero.
SyncWait(s) ==
    IF s.crashed \/ s.variant # "Sync" \/ s.callerPc # "wait" \/ s.wg # 0
    THEN {}
    ELSE {[s EXCEPT !.callerPc = "recv"]}

\* for i := 0; i < len(urls); i++ { results[i] = <-ch }
SyncReceive(s) ==
    IF s.crashed \/ s.variant # "Sync" \/ s.callerPc # "recv"
    THEN {}
    ELSE IF s.i < N(s)
    THEN ChanRecv(s)
    ELSE {[s EXCEPT !.callerPc = "close"]}

\* close(ch)
SyncClose(s) ==
    IF s.crashed \/ s.variant # "Sync" \/ s.callerPc # "close"
    THEN {}
    ELSE {[ChanClose(s) EXCEPT !.callerPc = "return"]}

\* return results
SyncReturn(s) ==
    IF s.crashed \/ s.variant # "Sync" \/ s.callerPc # "return"
    THEN {}
    ELSE {[s EXCEPT !.callerPc = "returned"]}

(***************************************************************************)
(* UnpackResults.                                                          *)
(***************************************************************************)

\* UnpackLoop with the Error case appending the error alone, without the
\* empty string that keeps the two slices aligned.
RECURSIVE UnpackLoopNoPlaceholder(_, _, _, _)
UnpackLoopNoPlaceholder(rs, k, bodies, errs) ==
    IF k > Len(rs)
    THEN <<bodies, errs>>
    ELSE IF rs[k].tag = "Ok" /\ rs[k].Value.k = "string"
    THEN UnpackLoopNoPlaceholder(rs, k + 1, Append(bodies, rs[k].Value),
                                 Append(errs, NilValue))
    ELSE IF rs[k].tag = "Error" /\ rs[k].Value.k \in {"error", "nil"}
    THEN UnpackLoopNoPlaceholder(rs, k + 1, bodies, Append(errs, rs[k].Value))
    ELSE UnpackLoopNoPlaceholder(rs, k + 1, bodies, errs)

\* The loop of UnpackResults from index k on, with the slices built so far.
\* The type switch has no default case: a Result that is neither an
\* Ok[RequestBodyAsString] nor an Error[error] appends nothing.
RECURSIVE UnpackLoop(_, _, _, _)
UnpackLoop(rs, k, bodies, errs) ==
    IF k > Len(rs)
    THEN <<bodies, errs>>
    ELSE IF rs[k].tag = "Ok" /\ rs[k].Value.k = "string"
    THEN UnpackLoop(rs, k + 1, Append(bodies, rs[k].Value), Append(errs, NilValue))
    ELSE IF rs[k].tag = "Error" /\ rs[k].Value.k \in {"error", "nil"}
    THEN UnpackLoop(rs, k + 1, Append(bodies, EmptyString), Append(errs, rs[k].Value))
    ELSE UnpackLoop(rs, k + 1, bodies, errs)

\* UnpackResults(results): the pair of slices it returns.
UnpackResults(rs) == UnpackLoop(rs, 1, <<>>, <<>>)

\* The Results a dispatch can put in its slice: what AsyncHttpGetCall
\* sends for some url (here urls[1]), and the Ok of an empty body.
SentResults ==
    {Ok(String(BodyBytes("ok", 1))), Ok(String(BodyBytes("readErr", 1))),
     Ok(EmptyString), Error(TransportErr(1)), Error(ReadErr(1))}

\* All slices of at most n such Results.
ResultSlices(n) == UNION {[1..k -> SentResults] : k \in 0..n}

(***************************************************************************)
(* The steps as actions.                                                   *)
(***************************************************************************)

\* Every state one step of some goroutine, or the crash, leads to from s.
Succ(s) ==
    UNION ({AsyncLaunch(s), AsyncReceive(s), AsyncClose(s), AsyncReturn(s),
            SyncLaunch(s), SyncWait(s), SyncReceive(s), SyncClose(s),
            SyncReturn(s), Crash(s)}
           \cup {HttpGet(s, t) : t \in Tasks(s)}
           \cup {SendGetError(s, t) : t \in Tasks(s)}
           \cup {DeferBodyClose(s, t) : t \in Tasks(s)}
           \cup {ReadAll(s, t) : t \in Tasks(s)}
           \cup {SendReadError(s, t) : t \in Tasks(s)}
           \cup {SendOk(s, t) : t \in Tasks(s)}
           \cup {CallReturn(s, t) : t \in Tasks(s)}
           \cup {CallPanic(s, t) : t \in Tasks(s)}
           \cup {WgDone(s, t) : t \in Tasks(s)})

\* The states reachable from those of frontier, added to seen.
RECURSIVE ReachFrom(_, _)
ReachFrom(frontier, seen) ==
    IF frontier = {}
    THEN seen
    ELSE LET next == (UNION {Succ(s) : s \in frontier}) \ seen
         IN  ReachFrom(next, seen \cup next)

\* Every state the dispatch started in s0 can get to.
Reach(s0) == ReachFrom({s0}, {s0})

\* Each action moves the dispatch to a state its step leads to.
DoHttpGet(t) ==
    /\ \E s \in HttpGet(State, t) : Becomes(s)
    /\ UNCHANGED <<unpackVars, accVars, ioVars>>

DoSendGetError(t) ==
    /\ \E s \in SendGetError(State, t) : Becomes(s)
    /\ UNCHANGED <<unpackVars, accVars, ioVars>>

DoDeferBodyClose(t) ==
    /\ \E s \in DeferBodyClose(State, t) : Becomes(s)
    /\ UNCHANGED <<unpackVars, accVars, ioVars>>

DoReadAll(t) ==
    /\ \E s \in ReadAll(State, t) : Becomes(s)
    /\ UNCHANGED <<unpackVars, accVars, ioVars>>

DoSendReadError(t) ==
    /\ \E s \in SendReadError(State, t) : Becomes(s)
    /\ UNCHANGED <<unpackVars, accVars, ioVars>>

DoSendOk(t) ==
    /\ \E s \in SendOk(State, t) : Becomes(s)
    /\ UNCHANGED <<unpackVars, accVars, ioVars>>

DoCallReturn(t) ==
    /\ \E s \in CallReturn(State, t) : Becomes(s)
    /\ UNCHANGED <<unpackVars, accVars, ioVars>>

DoCallPanic(t) ==
    /\ \E s \in CallPanic(State, t) : Becomes(s)
    /\ UNCHANGED <<unpackVars, accVars, ioVars>>

DoWgDone(t) ==
    /\ \E s \in WgDone(State, t) : Becomes(s)
    /\ UNCHANGED <<unpackVars, accVars, ioVars>>

DoCrash ==
    /\ \E s \in Crash(State) : Becomes(s)
    /\ UNCHANGED <<unpackVars, accVars, ioVars>>

DoAsyncLaunch ==
    /\ \E s \in AsyncLaunch(State) : Becomes(s)
    /\ UNCHANGED <<unpackVars, accVars, ioVars>>

DoAsyncReceive ==
    /\ \E s \in AsyncReceive(State) : Becomes(s)
    /\ UNCHANGED <<unpackVars, accVars, ioVars>>

DoAsyncClose ==
    /\ \E s \in AsyncClose(State) : Becomes(s)
    /\ UNCHANGED <<unpackVars, accVars, ioVars>>

DoAsyncReturn ==
    /\ \E s \in AsyncReturn(State) : Becomes(s)
    /\ UNCHANGED <<unpackVars, accVars, ioVars>>

DoSyncLaunch ==
    /\ \E s \in SyncLaunch(State) : Becomes(s)
    /\ UNCHANGED <<unpackVars, accVars, ioVars>>

DoSyncWait ==
    /\ \E s \in SyncWait(State) : Becomes(s)
    /\ UNCHANGED <<unpackVars, accVars, ioVars>>

DoSyncReceive ==
    /\ \E s \in SyncReceive(State) : Becomes(s)
    /\ UNCHANGED <<unpackVars, accVars, ioVars>>

DoSyncClose ==
    /\ \E s \in SyncClose(State) : Becomes(s)
    /\ UNCHANGED <<unpackVars, accVars, ioVars>>

DoSyncReturn ==
    /\ \E s \in SyncReturn(State) : Becomes(s)
    /\ UNCHANGED <<unpackVars, accVars, ioVars>>

\* One step of the goroutine of urls[t].
TaskStep(t) ==
    /\ t \in 1..Len(fetch)
    /\ \/ DoHttpGet(t)
       \/ DoSendGetError(t)
       \/ DoDeferBodyClose(t)
       \/ DoReadAll(t)
       \/ DoSendReadError(t)
       \/ DoSendOk(t)
       \/ DoCallReturn(t)
       \/ DoCallPanic(t)
       \/ DoWgDone(t)

\* One step of the caller.
CallerStep ==
    \/ DoAsyncLaunch
    \/ DoAsyncReceive
    \/ DoAsyncClose
    \/ DoAsyncReturn
    \/ DoSyncLaunch
    \/ DoSyncWait
    \/ DoSyncReceive
    \/ DoSyncClose
    \/ DoSyncReturn

\* The variables have the values of the record s.
Is(s) ==
    /\ variant = s.variant
    /\ fetch = s.fetch
    /\ launched = s.launched
    /\ pc = s.pc
    /\ resp = s.resp
    /\ deferred = s.deferred
    /\ closes = s.closes
    /\ sent = s.sent
    /\ ch = s.ch
    /\ sendq = s.sendq
    /\ closed = s.closed
    /\ results = s.results
    /\ i = s.i
    /\ wg = s.wg
    /\ callerPc = s.callerPc
    /\ crashed = s.crashed

\* No call of UnpackResults is in progress.
UnpackIdle ==
    /\ unpackPc = "idle"
    /\ unpackArg = <<>>
    /\ bodyRequestResults = <<>>
    /\ bodyRequestErrors = <<>>

\* No program chaining AccOperations is running.
AccIdle ==
    /\ accPc = "idle"
    /\ accFs = <<>>
    /\ accOps = <<>>
    /\ accCalled = <<>>
    /\ accRet = NilValue

\* No program building an IO is running.
IOIdle ==
    /\ ioPc = "idle"
    /\ ioProg = <<>>
    /\ ioTerm = <<>>
    /\ ioIn = <<>>
    /\ ioLog = <<>>
    /\ ioVal = NilValue
    /\ ioRuns = 0

\* A dispatch function is entered with some batch of urls.
Init ==
    /\ \E v \in Variants : \E f \in Batches(MaxUrls) : Is(InitState(v, f))
    /\ UnpackIdle
    /\ AccIdle
    /\ IOIdle

Next ==
    \/ \E t \in 1..Len(fetch) : DoHttpGet(t)
    \/ \E t \in 1..Len(fetch) : DoSendGetError(t)
    \/ \E t \in 1..Len(fetch) : DoDeferBodyClose(t)
    \/ \E t \in 1..Len(fetch) : DoReadAll(t)
    \/ \E t \in 1..Len(fetch) : DoSendReadError(t)
    \/ \E t \in 1..Len(fetch) : DoSendOk(t)
    \/ \E t \in 1..Len(fetch) : DoCallReturn(t)
    \/ \E t \in 1..Len(fetch) : DoCallPanic(t)
    \/ \E t \in 1..Len(fetch) : DoWgDone(t)
    \/ DoAsyncLaunch
    \/ DoAsyncReceive
    \/ DoAsyncClose
    \/ DoAsyncReturn
    \/ DoSyncLaunch
    \/ DoSyncWait
    \/ DoSyncReceive
    \/ DoSyncClose
    \/ DoSyncReturn
    \/ DoCrash

Spec == Init /\ [][Next]_vars

\* The scheduler runs every goroutine that can take a step, the network
\* answers every request, and the runtime ends a process whose goroutine
\* panicked.
FairSpec ==
    /\ Spec
    /\ \A t \in 1..MaxUrls : WF_vars(TaskStep(t))
    /\ WF_vars(CallerStep)
    /\ WF_vars(DoCrash)

(***************************************************************************)
(* UnpackResults on its own: main calls it with a slice of Results.        *)
(***************************************************************************)

InitUnpack ==
    /\ Is(InitState("Sync", <<>>))
    /\ unpackPc = "call"
    /\ unpackArg \in ResultSlices(MaxLen)
    /\ bodyRequestResults = <<>>
    /\ bodyRequestErrors = <<>>
    /\ AccIdle
    /\ IOIdle

\* bodyRequestResults, bodyRequestErrors := UnpackResults(...)
MainUnpackResults ==
    /\ unpackPc = "call"
    /\ unpackPc' = "done"
    /\ bodyRequestResults' = UnpackResults(unpackArg)[1]
    /\ bodyRequestErrors' = UnpackResults(unpackArg)[2]
    /\ UNCHANGED unpackArg
    /\ UNCHANGED <<dispatchVars, accVars, ioVars>>

NextUnpack == MainUnpackResults

SpecUnpack == InitUnpack /\ [][NextUnpack]_vars

(***************************************************************************)
(* AccOperation (src/monadic_types.go): a program builds an operation with *)
(* NewAccOperation, chains functions on it with Chain and ends with        *)
(* Return().  T is string, as in ChainedAsyncHttpGet.                      *)
(***************************************************************************)

\* Longest chain of calls of Chain that is explored.
MaxChain == 3

\* The zero value of T.
ZeroT == EmptyString

\* The strings a program works with.
Strings == {ZeroT, Val("string", "a", 0), Val("string", "b", 0)}

\* The values of type error: nil and two errors.
Errs == {NilValue, Val("error", "e1", 0), Val("error", "e2", 0)}

\* NewAccOperation(accValue, err)
NewAccOperation(accValue, err) == [accValue |-> accValue, err |-> err]

\* The functions a program hands to Chain: one that succeeds with a new
\* value, two that fail as ChainedAsyncHttpGet does (zero value and an
\* error), and one that fails keeping the value it was given.
AccFns == {"next", "fail1", "fail2", "failKeep"}

\* f(v) for a function f of AccFns.
AccApply(f, v) ==
    CASE f = "next" ->
           NewAccOperation(Val("string", IF v.c = "" THEN "a" ELSE "b", 0), NilValue)
      [] f = "fail1" -> NewAccOperation(ZeroT, Val("error", "e1", 0))
      [] f = "fail2" -> NewAccOperation(ZeroT, Val("error", "e2", 0))
      [] OTHER -> NewAccOperation(v, Val("error", "e2", 0))

\* All sequences of at most n functions of AccFns.
AccFnSeqs(n) == UNION {[1..k -> AccFns] : k \in 0..n}

\* Chain without the test of m.err: f is called whatever the receiver.
AccOperationChainNoCheck(m, f) ==
    [op |-> AccApply(f, m.accValue), called |-> TRUE]

\* m.Chain(f): the operation returned, and whether f was called.  With an
\* error in the receiver the result is AccOperation[T]{err: m.err}, whose
\* accValue is the zero value.
AccOperationChain(m, f) ==
    IF m.err # NilValue
    THEN [op |-> [accValue |-> ZeroT, err |-> m.err], called |-> FALSE]
    ELSE [op |-> AccApply(f, m.accValue), called |-> TRUE]

\* m.Return()
AccOperationReturn(m) == m.accValue

\* The program starts with the functions it is going to chain.
InitAcc ==
    /\ Is(InitState("Sync", <<>>))
    /\ UnpackIdle
    /\ IOIdle
    /\ accPc = "new"
    /\ accFs \in AccFnSeqs(MaxChain)
    /\ accOps = <<>>
    /\ accCalled = <<>>
    /\ accRet = NilValue

\* m := NewAccOperation(v, e)
AccNew ==
    /\ accPc = "new"
    /\ \E v \in Strings : \E e \in Errs : accOps' = <<NewAccOperation(v, e)>>
    /\ accPc' = "chain"
    /\ UNCHANGED <<accFs, accCalled, accRet>>
    /\ UNCHANGED <<dispatchVars, unpackVars, ioVars>>

\* m = m.Chain(f), for the next function f of the program.
AccChain ==
    /\ accPc = "chain"
    /\ Len(accCalled) < Len(accFs)
    /\ LET r == AccOperationChain(accOps[Len(accOps)], accFs[Len(accCalled) + 1])
       IN  /\ accOps' = Append(accOps, r.op)
           /\ accCalled' = Append(accCalled, r.called)
    /\ UNCHANGED <<accPc, accFs, accRet>>
    /\ UNCHANGED <<dispatchVars, unpackVars, ioVars>>

\* m.Return(), after the last Chain.
AccReturn ==
    /\ accPc = "chain"
    /\ Len(accCalled) = Len(accFs)
    /\ accRet' = AccOperationReturn(accOps[Len(accOps)])
    /\ accPc' = "returned"
    /\ UNCHANGED <<accFs, accOps, accCalled>>
    /\ UNCHANGED <<dispatchVars, unpackVars, ioVars>>

NextAcc ==
    \/ AccNew
    \/ AccChain
    \/ AccReturn

SpecAcc == InitAcc /\ [][NextAcc]_vars

(***************************************************************************)
(* IO (src/monadic_types.go): a program builds an IO with Return,          *)
(* ReadLine or Println, chains functions on it with Chain and calls Run()  *)
(* on the result.  An IO value is the closure in its run field, written    *)
(* here as a record that says which closure it is and what it captured.    *)
(* The world is the standard input still to read and the log of what has   *)
(* been executed: each closure run, with the value it returned, and each   *)
(* application of a chained function.  A is string.                        *)
(***************************************************************************)

\* Most lines standard input holds.
MaxIn == 2

\* Most calls of Run() on the IO built.
MaxRuns == 2

\* Return(value): IO[A]{run: func() A { return value }}
Return(value) == [op |-> "Return", value |-> value]

\* ReadLine(): the IO whose run reads a line of standard input.
ReadLine == [op |-> "ReadLine"]

\* Println(message): the IO whose run prints message and returns it.
Println(message) == [op |-> "Println", message |-> message]

\* io.Chain(f): IO[A]{run: func() A { return f(io.run()).run() }}
Chain(io, f) == [op |-> "Chain", io |-> io, f |-> f]

\* The functions a program hands to Chain: Println and Return themselves,
\* and func(string) IO[string] { return ReadLine() }.
IOFns == {"Println", "Return", "ReadLine"}

\* f(v) for a function f of IOFns.
IOApply(f, v) ==
    CASE f = "Println" -> Println(v)
      [] f = "Return" -> Return(v)
      [] OTHER -> ReadLine

\* The world w after the closure of io has run and returned value.
Ran(w, io, value) ==
    [w EXCEPT !.log = Append(w.log, [run |-> io.op, value |-> value])]

\* run with the closure of Chain calling io.run() twice:
\* io.run(); return f(io.run()).run()
RECURSIVE runReceiverTwice(_, _)
runReceiverTwice(io, w) ==
    CASE io.op = "Return" -> [value |-> io.value, w |-> Ran(w, io, io.value)]
      [] io.op = "Println" -> [value |-> io.message, w |-> Ran(w, io, io.message)]
      [] io.op = "ReadLine" ->
           LET input == IF w.in = <<>> THEN EmptyString ELSE Head(w.in)
               rest == IF w.in = <<>> THEN <<>> ELSE Tail(w.in)
           IN  [value |-> input, w |-> Ran([w EXCEPT !.in = rest], io, input)]
      [] OTHER ->
           LET first == runReceiverTwice(io.io, w)
               r == runReceiverTwice(io.io, first.w)
               applied == [r.w EXCEPT !.log = Append(r.w.log,
                                                [apply |-> io.f, to |-> r.value])]
           IN  runReceiverTwice(IOApply(io.f, r.value), applied)

\* io.run() in the world w: the value returned and the world left.
\*   Return:   return value
\*   Println:  fmt.Println(message); return message
\*   ReadLine: var input string; fmt.Scanln(&input); return input (input
\*             stays "" when standard input is at its end)
\*   Chain:    return f(io.run()).run()
RECURSIVE run(_, _)
run(io, w) ==
    CASE io.op = "Return" -> [value |-> io.value, w |-> Ran(w, io, io.value)]
      [] io.op = "Println" -> [value |-> io.message, w |-> Ran(w, io, io.message)]
      [] io.op = "ReadLine" ->
           LET input == IF w.in = <<>> THEN EmptyString ELSE Head(w.in)
               rest == IF w.in = <<>> THEN <<>> ELSE Tail(w.in)
           IN  [value |-> input, w |-> Ran([w EXCEPT !.in = rest], io, input)]
      [] OTHER ->
           LET r == run(io.io, w)
               applied == [r.w EXCEPT !.log = Append(r.w.log,
                                                [apply |-> io.f, to |-> r.value])]
           IN  run(IOApply(io.f, r.value), applied)

\* io.Run()
Run(io, w) == run(io, w)

\* Number of calls of Chain that built io.
RECURSIVE Chained(_)
Chained(io) == IF io.op = "Chain" THEN 1 + Chained(io.io) ELSE 0

\* The IOs a program starts from.
IOBase ==
    {Return(x) : x \in Strings} \cup {ReadLine}
        \cup {Println(x) : x \in Strings \ {EmptyString}}

\* The lines standard input may hold.
Stdins == UNION {[1..k -> Strings \ {EmptyString}] : k \in 0..MaxIn}

\* All sequences of one to n functions of IOFns.
IOFnSeqs(n) == UNION {[1..k -> IOFns] : k \in 1..n}

\* The program starts with the IO and the functions it is going to use and
\* with some standard input; nothing has been executed.
InitIO ==
    /\ Is(InitState("Sync", <<>>))
    /\ UnpackIdle
    /\ AccIdle
    /\ ioPc = "new"
    /\ ioProg \in [recv : IOBase, fs : IOFnSeqs(MaxChain), in : Stdins]
    /\ ioTerm = <<>>
    /\ ioIn = ioProg.in
    /\ ioLog = <<>>
    /\ ioVal = NilValue
    /\ ioRuns = 0

\* io := Return(x), ReadLine() or Println(m)
IONew ==
    /\ ioPc = "new"
    /\ ioTerm' = ioProg.recv
    /\ ioPc' = "chain"
    /\ UNCHANGED <<ioProg, ioIn, ioLog, ioVal, ioRuns>>
    /\ UNCHANGED <<dispatchVars, unpackVars, accVars>>

\* io = io.Chain(f), for the next function f of the program; after the
\* last one the program goes on to Run().
IOChain ==
    /\ ioPc = "chain"
    /\ ioTerm' = Chain(ioTerm, ioProg.fs[Chained(ioTerm) + 1])
    /\ ioPc' = IF Chained(ioTerm) + 1 = Len(ioProg.fs) THEN "run" ELSE "chain"
    /\ UNCHANGED <<ioProg, ioIn, ioLog, ioVal, ioRuns>>
    /\ UNCHANGED <<dispatchVars, unpackVars, accVars>>

\* io.Run()
IORun ==
    /\ ioPc = "run"
    /\ ioRuns < MaxRuns
    /\ LET r == Run(ioTerm, [in |-> ioIn, log |-> ioLog])
       IN  /\ ioVal' = r.value
           /\ ioIn' = r.w.in
           /\ ioLog' = r.w.log
    /\ ioRuns' = ioRuns + 1
    /\ UNCHANGED <<ioPc, ioProg, ioTerm>>
    /\ UNCHANGED <<dispatchVars, unpackVars, accVars>>

NextIO ==
    \/ IONew
    \/ IOChain
    \/ IORun

SpecIO == InitIO /\ [][NextIO]_vars

(***************************************************************************)
(* What the claims speak of.                                               *)
(***************************************************************************)

\* The one outcome the fetch of urls[t] has: the Ok of the whole body, or
\* the Error of the failure.
Outcome(t) ==
    CASE fetch[t] = "ok" -> Ok(String(BodyBytes("ok", t)))
      [] fetch[t] = "transportErr" -> Error(TransportErr(t))
      [] OTHER -> Error(ReadErr(t))

\* The dispatch function has returned results to its caller.
Returned == callerPc = "returned"

\* Nothing can happen any more: every goroutine is finished or blocked, or
\* the process is gone.
Terminal == Succ(State) = {}

\* The goroutine of urls[t] is unwinding a panic or has died of one.
Panicked(t) == pc[t] \in {"panic", "panicWgDone", "fatal"}

\* The goroutine of urls[t] has left the go statement's function.
Terminated(t) == pc[t] \in {"done", "fatal"}

\* What the caller of the dispatch observes in state s, if anything yet:
\* the slice returned, the process dying of a panic before the return, or
\* the call blocked for ever (where the Go runtime finds every goroutine
\* blocked it may abort the process instead: the call does not return
\* then either).
Observed(s) ==
    IF s.callerPc = "returned" THEN <<"returned", s.results>>
    ELSE IF s.crashed THEN <<"panic">>
    ELSE IF Succ(s) = {} THEN <<"hang">>
    ELSE <<"running">>

\* All the caller can observe of variant v on the batch f.
Observables(v, f) == {Observed(s) : s \in Reach(InitState(v, f))} \ {<<"running">>}

OtherVariant(v) == IF v = "Async" THEN "Sync" ELSE "Async"

(***************************************************************************)
(* C1: when a dispatch of a non-empty batch returns, results[j] is the     *)
(* outcome of the fetch of urls[j] for every j, whatever the order in      *)
(* which the goroutines sent.                                              *)
(***************************************************************************)
C1_InputOrder ==
    (Returned /\ Len(fetch) >= 1)
        => \A j \in 1..Len(fetch) : results[j] = Outcome(j)

(***************************************************************************)
(* C2: when a dispatch of a non-empty batch of N urls returns, results has *)
(* N entries, each an Ok or an Error, and each of the N goroutines         *)
(* contributed exactly one of them.                                        *)
(***************************************************************************)
C2_OneEntryPerTask ==
    (Returned /\ Len(fetch) >= 1)
        => /\ Len(results) = Len(fetch)
           /\ \A j \in 1..Len(results) : results[j].tag \in {"Ok", "Error"}
           /\ \A t \in 1..Len(fetch) :
                Cardinality({j \in 1..Len(results) : results[j].Value.of = t}) = 1

(***************************************************************************)
(* C3: a goroutine whose http.Get fails never sends an Ok and never more   *)
(* than one message, has sent exactly one Error once it is past its send   *)
(* statement, and the collection loop is never left blocked for ever.      *)
(***************************************************************************)
C3_TransportErrorOneMessage ==
    /\ \A t \in 1..Len(fetch) :
         fetch[t] = "transportErr"
            => /\ Len(sent[t]) <= 1
               /\ \A k \in 1..Len(sent[t]) : sent[t][k] = "Error"
               /\ pc[t] \notin {"idle", "get", "sendGetErr"} => sent[t] = <<"Error">>
    /\ ~(callerPc = "recv" /\ ~crashed /\ Terminal)

(***************************************************************************)
(* C4: no goroutine ever panics and the process never dies of a panic.     *)
(***************************************************************************)
C4_NoPanic == ~crashed /\ \A t \in 1..Len(fetch) : ~Panicked(t)

(***************************************************************************)
(* C5: SyncChainOfHttpGetCalls on a batch in which some fetches succeed    *)
(* and some fail eventually returns all its outcomes.                      *)
(***************************************************************************)
C5_SyncReturnsPartialFailure ==
    (/\ variant = "Sync"
     /\ \E t \in 1..Len(fetch) : fetch[t] = "ok"
     /\ \E t \in 1..Len(fetch) : fetch[t] # "ok")
        => <>(Returned /\ i = Len(fetch))

(***************************************************************************)
(* C6: AsyncChainOfHttpGetCalls eventually makes its len(urls)-th receive  *)
(* and returns, whatever the fetches do.                                   *)
(***************************************************************************)
C6_AsyncReturns == (variant = "Async") => <>(Returned /\ i = Len(fetch))

(***************************************************************************)
(* C7: when SyncChainOfHttpGetCalls has returned, every goroutine it       *)
(* launched has terminated: none is running, parked in a send or yet to    *)
(* send.                                                                   *)
(***************************************************************************)
C7_SyncReturnsAfterTasks ==
    (variant = "Sync" /\ Returned)
        => \A t \in 1..Len(fetch) : Terminated(t) /\ ~Parked(State, t)

\* SyncChainOfHttpGetCalls has returned from a batch of two urls or more.
C7_Witness == variant = "Sync" /\ Returned /\ Len(fetch) >= 2

(***************************************************************************)
(* C8: the body of every response obtained is closed exactly once: never   *)
(* twice, and once nothing can happen any more no body obtained is left    *)
(* unclosed.                                                               *)
(***************************************************************************)
C8_BodyClosedOnce ==
    /\ \A t \in 1..Len(fetch) : closes[t] <= 1
    /\ Terminal => \A t \in 1..Len(fetch) : resp[t] = "resp" => closes[t] = 1

(***************************************************************************)
(* C9: the two dispatch functions are observably equivalent: whatever the  *)
(* caller observes of one of them on a batch (a returned slice, a panic, a *)
(* call that never returns) can be observed of the other on that batch.    *)
(***************************************************************************)
C9_ObservablyEquivalent ==
    Observed(State) # <<"running">>
        => Observed(State) \in Observables(OtherVariant(variant), fetch)

C11_EmptyBatch ==
    Len(fetch) = 0
        => /\ launched = 0
           /\ i = 0
           /\ ch = <<>>
           /\ sendq = <<>>
           /\ ~crashed
           /\ DOMAIN pc = {}
           /\ Len(results) = 0
           /\ ~Returned => Succ(State) # {}
           /\ Returned => Terminal

\* A dispatch of the empty batch has returned, and the other dispatch
\* function returns the empty slice on it too.
C11_Witness ==
    /\ Len(fetch) = 0
    /\ Returned
    /\ closed
    /\ <<"returned", results>> \in Observables(OtherVariant(variant), fetch)

(***************************************************************************)
(* C13: a goroutine whose http.Get succeeds and whose io.ReadAll fails     *)
(* never sends an Ok and never more than one message, and has sent exactly *)
(* one Error once it is past the send of the read error.                   *)
(***************************************************************************)
C13_ReadErrorOneMessage ==
    \A t \in 1..Len(fetch) :
        fetch[t] = "readErr"
            => /\ Len(sent[t]) <= 1
               /\ \A k \in 1..Len(sent[t]) : sent[t][k] = "Error"
               /\ pc[t] \in {"sendOk", "ret", "wgDone", "done"}
                    => sent[t] = <<"Error">>

\* The goroutine of urls[t] has a send before it: one it is parked in, one
\* it is at, or one its path leads to.
SendAhead(t) ==
    \/ Parked(State, t)
    \/ pc[t] \in {"idle", "get", "sendGetErr", "read", "sendReadErr", "sendOk"}
    \/ pc[t] = "defer" /\ resp[t] = "resp"

(***************************************************************************)
(* C14: close(ch) comes after every send of the batch: the channel is      *)
(* never closed while a goroutine of the batch is parked in a send, at a   *)
(* send or on its way to one.                                              *)
(***************************************************************************)
C14_CloseAfterSends ==
    closed => \A t \in 1..Len(fetch) : ~SendAhead(t)

\* Number of messages the goroutines 1..n have sent on ch.
RECURSIVE SentCount(_)
SentCount(n) == IF n = 0 THEN 0 ELSE Len(sent[n]) + SentCount(n - 1)

(***************************************************************************)
(* C15: the channel of capacity len(urls) is never over-subscribed: the    *)
(* goroutines of the batch have sent at most len(urls) messages in all,    *)
(* and none of them is parked in a send on the full channel.               *)
(***************************************************************************)
C15_NeverOverSubscribed ==
    /\ SentCount(Len(fetch)) <= Len(fetch)
    /\ sendq = <<>>

(***************************************************************************)
(* C16: in SyncChainOfHttpGetCalls, when wg.Wait() has returned the        *)
(* channel holds exactly len(urls) messages, and all along the drain loop  *)
(* it holds the len(urls) - i messages still to be received, so that no    *)
(* receive of the loop blocks.                                             *)
(***************************************************************************)
C16_SyncDrainNeverBlocks ==
    (variant = "Sync" /\ callerPc = "recv")
        => /\ Len(ch) = Len(fetch) - i
           /\ sendq = <<>>
           /\ i < Len(fetch) => ChanRecv(State) # {}

\* wg.Wait() has just returned on a batch of two urls, one of which failed
\* in http.Get.
C16_Witness ==
    /\ variant = "Sync"
    /\ callerPc = "recv"
    /\ i = 0
    /\ Len(fetch) = 2
    /\ Len(ch) = 2
    /\ \E t \in 1..Len(fetch) : fetch[t] = "transportErr"

\* The call of AsyncHttpGetCall for urls[t] has returned.
CallFinished(t) == pc[t] \in {"wgDone", "done"}

(***************************************************************************)
(* C12: AsyncHttpGetCall closes the channel it was given at the end of the *)
(* function: once a call of it has returned, that channel is closed.       *)
(***************************************************************************)
C12_ChannelClosedAtEnd ==
    \A t \in 1..Len(fetch) : CallFinished(t) => closed

\* The k-th call of Chain takes accOps[k] to accOps[k + 1].  The parts of
\* C17 that do not speak of Return(): after an operation with an error no
\* function is called and the error is carried to the last operation; on
\* an operation without error Chain calls f and returns f(accValue).
ChainPropagates ==
    /\ \A j \in 1..Len(accOps) :
         accOps[j].err # NilValue
            => /\ \A k \in j..Len(accCalled) : ~accCalled[k]
               /\ accOps[Len(accOps)].err = accOps[j].err
    /\ \A k \in 1..Len(accCalled) :
         accOps[k].err = NilValue
            => /\ accCalled[k]
               /\ accOps[k + 1] = AccApply(accFs[k], accOps[k].accValue)

(***************************************************************************)
(* C17 as stated: once an operation of the chain carries an error, no      *)
(* later function is called, the last operation carries that error and     *)
(* Return() yields the zero value of T; without an error each Chain        *)
(* returns f(accValue).                                                    *)
(***************************************************************************)
C17_ChainShortCircuits ==
    /\ ChainPropagates
    /\ (accPc = "returned" /\ \E j \in 1..Len(accOps) : accOps[j].err # NilValue)
         => accRet = ZeroT

(***************************************************************************)
(* C17 as amended: the same, but Return() yields the zero value of T only  *)
(* when a call of Chain was made on an operation that carried the error;   *)
(* when the last operation is the first to carry an error, Return() yields *)
(* the value that operation was built with.                                *)
(***************************************************************************)
C17_ChainShortCircuitsAmended ==
    /\ ChainPropagates
    /\ (accPc = "returned"
          /\ \E j \in 1..(Len(accOps) - 1) : accOps[j].err # NilValue)
         => accRet = ZeroT
    /\ accPc = "returned" => accRet = accOps[Len(accOps)].accValue

\* A chain of three functions on an operation with a value has returned:
\* the first function failed, the other two were not called.
C17_Witness ==
    /\ accPc = "returned"
    /\ Len(accFs) = 3
    /\ accOps[1].accValue # ZeroT
    /\ accOps[1].err = NilValue
    /\ accOps[2].err # NilValue
    /\ accCalled = <<TRUE, FALSE, FALSE>>
    /\ accRet = ZeroT

\* What the closure of a base IO b returns on the standard input in, and
\* the standard input it leaves.
BaseValue(b, in) ==
    CASE b.op = "Return" -> b.value
      [] b.op = "Println" -> b.message
      [] OTHER -> IF in = <<>> THEN EmptyString ELSE Head(in)

BaseIn(b, in) == IF b.op = "ReadLine" /\ in # <<>> THEN Tail(in) ELSE in

\* What is left to happen in one call of Run() once the first k chained
\* functions are done with result value: for each further function, in the
\* program's order, it is applied to the value so far and the closure of
\* the IO it returned runs once.
RECURSIVE ExpectedFrom(_, _, _, _)
ExpectedFrom(k, value, in, log) ==
    IF k = Len(ioProg.fs)
    THEN [value |-> value, in |-> in, log |-> log]
    ELSE LET f == ioProg.fs[k + 1]
             next == IOApply(f, value)
             v == BaseValue(next, in)
         IN  ExpectedFrom(k + 1, v, BaseIn(next, in),
                          log \o <<[apply |-> f, to |-> value],
                                   [run |-> next.op, value |-> v]>>)

\* What one call of Run() on the program's IO is to do: the closure of the
\* IO the program started from runs once, then the chained functions.
ExpectedRun(in, log) ==
    LET v == BaseValue(ioProg.recv, in)
    IN  ExpectedFrom(0, v, BaseIn(ioProg.recv, in),
                     Append(log, [run |-> ioProg.recv.op, value |-> v]))

\* The value, standard input and log expected after n calls of Run().
RECURSIVE ExpectedAfter(_)
ExpectedAfter(n) ==
    IF n = 0
    THEN [value |-> NilValue, in |-> ioProg.in, log |-> <<>>]
    ELSE ExpectedRun(ExpectedAfter(n - 1).in, ExpectedAfter(n - 1).log)

(***************************************************************************)
(* C18: IO.Chain is lazy and ordered.  Until Run() is called nothing has   *)
(* been executed and no input read, whatever was built with Return,        *)
(* ReadLine, Println and Chain.  Each call of Run() on io.Chain(f) runs    *)
(* the receiver exactly once, then applies f to its result, then runs the  *)
(* IO f returned exactly once, in that order, through the whole chain, and *)
(* returns the last value.  And Return(x).Chain(f).Run() returns what      *)
(* f(x).Run() returns.                                                     *)
(***************************************************************************)
C18_ChainLazyOrdered ==
    ioPc # "idle"
        => /\ ioRuns = 0 => ioLog = <<>> /\ ioIn = ioProg.in /\ ioVal = NilValue
           /\ ioRuns > 0
                => /\ ioLog = ExpectedAfter(ioRuns).log
                   /\ ioIn = ExpectedAfter(ioRuns).in
                   /\ ioVal = ExpectedAfter(ioRuns).value
           /\ (ioRuns = 1 /\ ioProg.recv.op = "Return" /\ Len(ioProg.fs) = 1)
                => ioVal = Run(IOApply(ioProg.fs[1], ioProg.recv.value),
                               [in |-> ioProg.in, log |-> <<>>]).value

\* Run() was called twice on ReadLine().Chain(Println).Chain(f) with two
\* lines of input: ten entries are logged, five by each call.
C18_Witness ==
    /\ ioRuns = 2
    /\ ioProg.recv.op = "ReadLine"
    /\ Len(ioProg.fs) = 2
    /\ ioProg.fs[1] = "Println"
    /\ Len(ioProg.in) = 2
    /\ Len(ioLog) = 10
    /\ ioLog[1].run = "ReadLine"
    /\ ioLog[2].apply = "Println"
    /\ ioLog[3].run = "Println"
    /\ ioLog[3].value = ioProg.in[1]

====
